---------------------------- MODULE Spec2Model ----------------------------
(***************************************************************************)
(* HealthMap API (src/api.py): a Flask application with two stateful       *)
(* endpoints.  POST /api/generate-map (create_map) saves an uploaded CSV   *)
(* under uploads/, parses and validates it, renders a map into             *)
(* generated_maps/ (generate_health_map) and removes the upload.           *)
(* GET /api/maps/<filename> (get_map) serves a rendered map.               *)
(*                                                                         *)
(* The only shared state is the two directories and the wall clock.  A     *)
(* request handler is one thread of control; handlers of different         *)
(* requests interleave between their accesses to that shared state, so     *)
(* create_map is cut at each of them: file.save, pd.read_csv,              *)
(* datetime.now, m.save, os.remove.  Each library call is one step.  Time   *)
(* passes between the steps; the clock is state only where it is read.     *)
(***************************************************************************)
EXTENDS Integers, Sequences, FiniteSets, TLC

\* ------------------------------------------------------------------ bounds
NumReq   == 2      \* generate-map requests in flight or finished
MaxTick  == 2      \* clock readings 0..MaxTick

Requests == 1..NumReq

\* The clock advances in ticks finer than a second.
TicksPerSec == 2

\* The wall-clock second that tick t falls in.
Second(t) == t \div TicksPerSec

\* A format that also drops the seconds ('%Y%m%d_%H%M').
strftimeMinutes(t) == Second(t) \div 2

\* strftime('%Y%m%d_%H%M%S') keeps the second and drops the rest.
strftime(t) == Second(t)

Stamps == { strftime(t) : t \in 0..MaxTick }

\* f'health_map_{timestamp}.html'
MapName(ts) == <<"health_map_", ts, ".html">>

MapNames == { MapName(ts) : ts \in Stamps }

\* f'/api/maps/{map_filename}'
MapUrl(name) == <<"/api/maps/">> \o name

\* ------------------------------------------------------ uploaded file names
\* File names as the client sends them, character by character.
RawNames ==
    { <<>>, <<"a">>, <<"/", "a">>, <<".", ".">>, <<"b">> }

\* werkzeug's secure_filename, on the characters that occur above: path
\* separators become blanks, blank-separated pieces are joined by "_", and
\* leading and trailing dots and underscores are stripped.
RECURSIVE ReplaceSep(_)
ReplaceSep(s) ==
    IF s = <<>> THEN <<>>
    ELSE <<IF Head(s) = "/" THEN " " ELSE Head(s)>> \o ReplaceSep(Tail(s))

RECURSIVE LStripChars(_, _)
LStripChars(s, cs) ==
    IF s # <<>> /\ Head(s) \in cs THEN LStripChars(Tail(s), cs) ELSE s

RECURSIVE RStripChars(_, _)
RStripChars(s, cs) ==
    IF s # <<>> /\ s[Len(s)] \in cs
    THEN RStripChars(SubSeq(s, 1, Len(s) - 1), cs) ELSE s

StripChars(s, cs) == RStripChars(LStripChars(s, cs), cs)

\* "_".join(s.split()): s has no leading or trailing blank here.
RECURSIVE JoinPieces(_)
JoinPieces(s) ==
    IF s = <<>> THEN <<>>
    ELSE IF Head(s) = " "
         THEN <<"_">> \o JoinPieces(LStripChars(s, {" "}))
         ELSE <<Head(s)>> \o JoinPieces(Tail(s))

secure_filename(raw) ==
    StripChars(JoinPieces(StripChars(ReplaceSep(raw), {" "})), {".", "_"})

\* os.path.join(UPLOAD_FOLDER, filename), as the name below uploads/
Paths == { secure_filename(n) : n \in RawNames } \ { <<>> }

\* ------------------------------------------------------------ file contents
required_columns == { "latitude", "longitude", "region", "health_metric" }

Num(n) == [t |-> "num", v |-> n]
Str(s) == [t |-> "str", v |-> s]

RowEast == [latitude |-> Num(40), longitude |-> Num(-75),
            region |-> "East", health_metric |-> Num(5),
            additional_info |-> "n/a"]
RowWest == [latitude |-> Num(36), longitude |-> Num(-120),
            region |-> "West", health_metric |-> Num(7),
            additional_info |-> "clinic"]
RowBad  == [latitude |-> Str("north"), longitude |-> Num(-75),
            region |-> "East", health_metric |-> Num(5),
            additional_info |-> "n/a"]

Csv(cols, rows) == [kind |-> "csv", cols |-> cols, rows |-> rows]

TableEast   == Csv(required_columns, <<RowEast>>)
TableWest   == Csv(required_columns \cup {"additional_info"}, <<RowWest, RowEast>>)
TableBad    == Csv(required_columns, <<RowBad>>)
TableNoMetric == Csv(required_columns \ {"health_metric"}, <<RowEast>>)

\* Bytes that pd.read_csv rejects (an empty file, say).
Garbage == [kind |-> "garbage"]

\* One upload per path through create_map, and a second well-formed one.
Bodies == { TableEast, TableWest, TableBad, TableNoMetric, Garbage }

\* A directory entry that does not exist.
Absent == [kind |-> "absent"]

\* ------------------------------------------------------------- the renderer
RECURSIVE SumOf(_, _)
SumOf(rows, col) ==
    IF rows = <<>> THEN 0 ELSE rows[1][col].v + SumOf(Tail(rows), col)

\* df[col].mean(), in whole degrees
Mean(rows, col) == SumOf(rows, col) \div Len(rows)

Numeric(rows) ==
    \A i \in 1..Len(rows) :
        /\ rows[i].latitude.t = "num"
        /\ rows[i].longitude.t = "num"
        /\ rows[i].health_metric.t = "num"

\* The popup of one marker; row.get('additional_info', 'N/A').
Popup(df, row) ==
    [region |-> row.region,
     health_metric |-> row.health_metric.v,
     additional_info |->
        IF "additional_info" \in df.cols THEN row.additional_info ELSE "N/A",
     at |-> <<row.latitude.v, row.longitude.v>>]

\* The document m.save writes for a table whose map could be built.
Html(df) ==
    [kind |-> "html",
     location |-> IF df.rows = <<>> THEN <<0, 0>>
                  ELSE <<Mean(df.rows, "latitude"), Mean(df.rows, "longitude")>>,
     legend_name |-> "Health Metric",
     markers |-> [i \in 1..Len(df.rows) |-> Popup(df, df.rows[i])]]

\* Whether building the map of df may raise, and whether it may succeed.  A
\* non-numeric coordinate or metric always raises (the mean of a column of
\* strings); what the libraries do with a table of no rows (a mean of NaN as
\* the map's location) is not fixed by this code, so both outcomes are kept.
MayRaise(df) == ~Numeric(df.rows) \/ df.rows = <<>>
MayBuild(df) == Numeric(df.rows)


\* ------------------------------------------------------------------- state
VARIABLES
    req,        \* per generate-map request: the handler's locals and response
    uploads,    \* uploads/: sanitized file name -> content, or Absent
    maps,       \* generated_maps/: artifact name -> document, or Absent
    saves,      \* per artifact name, the requests that saved it, in order
    now,        \* the wall clock when it was last read, in ticks
    last        \* the latest get_map response

vars == <<req, uploads, maps, saves, now, last>>

NoResp == [status |-> 0]

\* A request that has not reached the server yet.  Requests are numbered in
\* the order in which they arrive.
Fresh ==
    [pc |-> "new", hasFile |-> FALSE, named |-> FALSE, body |-> Absent,
     path |-> <<>>, df |-> Absent, ts |-> -1, wrote |-> FALSE,
     removed |-> FALSE, hit |-> FALSE, resp |-> NoResp]

\* filename, line 61, of a request that has read the clock
FileName(q) == MapName(q.ts)

InFlight == { "saved", "parsed", "stamped", "rendered" }

Init ==
    /\ req = [r \in Requests |-> Fresh]
    /\ uploads = [p \in Paths |-> Absent]
    /\ maps = [n \in MapNames |-> Absent]
    /\ saves = [n \in MapNames |-> <<>>]
    /\ now = 0
    /\ last = NoResp

\* ---------------------------------------------------------------- responses
\* jsonify({'error': ...}), status
BadRequest(msg) == [status |-> 400, error |-> msg]

MissingColumns ==
    [status |-> 400, error |-> "Missing required columns. Required: ",
     listed |-> required_columns]

\* The inner handler answering with the status of a client error.
ProcessingErrorAsBadRequest(e) ==
    [status |-> 400, error |-> "Error processing file: ", exc |-> e]

\* the inner handler: f'Error processing file: {str(e)}'
ProcessingError(e) ==
    [status |-> 500, error |-> "Error processing file: ", exc |-> e]

\* the outer handler: f'Server error: {str(e)}'
ServerError(e) == [status |-> 500, error |-> "Server error: ", exc |-> e]

Success(name) == [status |-> 200, success |-> TRUE, map_url |-> MapUrl(name)]

Finish(q, response) == [q EXCEPT !.pc = "done", !.resp = response]

\* The other requests that hold `path` between their file.save and their
\* os.remove see every write to it and every removal of it.
Disturb(r, path) ==
    [q \in Requests |->
        IF q # r /\ req[q].pc \in InFlight /\ req[q].path = path
        THEN [req[q] EXCEPT !.hit = TRUE] ELSE req[q]]

\* ------------------------------------------------- create_map, step by step
\* A check of the file name that never fires.
UnnamedNever(raw) == FALSE

\* Line 86: file.filename == ''
Unnamed(raw) == raw = <<>>

\* Lines 80-92: the checks on the request, secure_filename and file.save.
\* Request r is the r-th to arrive.
Intake(r, hasFile, raw, body) ==
    /\ req[r].pc = "new"
    /\ \A q \in Requests : q < r => req[q].pc # "new"
    /\ LET path == secure_filename(raw)
           q == [req[r] EXCEPT !.hasFile = hasFile, !.named = (raw # <<>>),
                               !.body = body]
       IN  IF ~hasFile
           THEN /\ req' = [req EXCEPT ![r] = Finish(q, BadRequest("No file provided"))]
                /\ UNCHANGED uploads
           ELSE IF Unnamed(raw)
           THEN /\ req' = [req EXCEPT ![r] = Finish(q, BadRequest("No selected file"))]
                /\ UNCHANGED uploads
           ELSE IF path = <<>>
           THEN \* open('uploads/', 'wb') raises; the outer handler answers
                /\ req' = [req EXCEPT ![r] =
                             Finish(q, ServerError("IsADirectoryError"))]
                /\ UNCHANGED uploads
           ELSE /\ uploads' = [uploads EXCEPT ![path] = body]
                /\ req' = [Disturb(r, path) EXCEPT ![r] =
                             [q EXCEPT !.pc = "saved", !.path = path]]
    /\ UNCHANGED <<maps, saves, now, last>>

\* A check that passes as soon as one required column is there.
HasAnyRequired(cols) == required_columns \cap cols # {}

\* Line 98: all(col in df.columns for col in required_columns)
HasRequired(cols) == required_columns \subseteq cols

\* Lines 96-101: pd.read_csv and the column check.
Read(r) ==
    /\ req[r].pc = "saved"
    /\ LET file == uploads[req[r].path]
       IN  req' = [req EXCEPT ![r] =
              IF file = Absent
              THEN Finish(@, ProcessingError("FileNotFoundError"))
              ELSE IF file.kind # "csv"
              THEN Finish(@, ProcessingError("ParserError"))
              ELSE IF ~HasRequired(file.cols)
              THEN Finish([@ EXCEPT !.df = file], MissingColumns)
              ELSE [@ EXCEPT !.pc = "parsed", !.df = file]]
    /\ UNCHANGED <<uploads, maps, saves, now, last>>

\* Lines 104, 23-62: the map is built in memory and the name is taken from
\* the clock, which reads t: the time of the last reading or later.  A
\* failure leaves through the inner handler before the clock is read.
Build(r, t) ==
    /\ req[r].pc = "parsed"
    /\ \/ /\ MayBuild(req[r].df)
          /\ t >= now
          /\ now' = t
          /\ req' = [req EXCEPT ![r] =
                       [@ EXCEPT !.pc = "stamped", !.ts = strftime(t)]]
       \/ /\ MayRaise(req[r].df)
          /\ t = now
          /\ now' = now
          /\ req' = [req EXCEPT ![r] = Finish(@, ProcessingError("ValueError"))]
    /\ UNCHANGED <<uploads, maps, saves, last>>

\* A save that writes nothing.
WrittenNowhere(name, doc) == maps

\* A save that prunes the older artifacts.
WrittenAlone(name, doc) ==
    [n \in MapNames |-> IF n = name THEN doc ELSE Absent]

\* generated_maps/ after m.save(filepath)
Written(name, doc) == [maps EXCEPT ![name] = doc]

\* Line 63: m.save(filepath) creates or overwrites the artifact.
Save(r) ==
    /\ req[r].pc = "stamped"
    /\ LET name == FileName(req[r])
       IN  /\ maps' = Written(name, Html(req[r].df))
           /\ saves' = [saves EXCEPT ![name] = Append(@, r)]
    /\ req' = [req EXCEPT ![r] = [@ EXCEPT !.pc = "rendered", !.wrote = TRUE]]
    /\ UNCHANGED <<uploads, now, last>>

\* A removal that leaves the file where it is.
RemovedNothing(path) == uploads

\* A removal that empties uploads/.
RemovedAll(path) == [p \in Paths |-> Absent]

\* uploads/ after os.remove(filepath)
Removed(path) == [uploads EXCEPT ![path] = Absent]

\* Lines 107-113: os.remove(filepath) and the success response.
Cleanup(r) ==
    /\ req[r].pc = "rendered"
    /\ LET path == req[r].path
       IN  IF uploads[path] = Absent
           THEN /\ req' = [req EXCEPT ![r] =
                             Finish(@, ProcessingError("FileNotFoundError"))]
                /\ UNCHANGED uploads
           ELSE /\ uploads' = Removed(path)
                /\ req' = [Disturb(r, path) EXCEPT ![r] =
                             Finish([req[r] EXCEPT !.removed = TRUE],
                                    Success(FileName(req[r])))]
    /\ UNCHANGED <<maps, saves, now, last>>

\* ------------------------------------------------------------------ get_map
\* A get_map that answers 200 with an empty document for a missing artifact.
SendFileEmpty(name) ==
    [name |-> name, status |-> 200,
     body |-> IF maps[name] = Absent THEN [kind |-> "html"] ELSE maps[name],
     gen |-> Len(saves[name])]

\* Lines 121-130: send_file, or 404 on FileNotFoundError.
SendFile(name) ==
    IF maps[name] = Absent
    THEN [name |-> name, status |-> 404, body |-> Absent,
          gen |-> Len(saves[name])]
    ELSE [name |-> name, status |-> 200, body |-> maps[name],
          gen |-> Len(saves[name])]

GetMap(name) ==
    /\ last' = SendFile(name)
    /\ UNCHANGED <<req, uploads, maps, saves, now>>

\* The uploads a client may send: a request without a file field has no file
\* name, and a file that is never saved has no content worth telling apart.
Uploads ==
    { u \in [hasFile : BOOLEAN, raw : RawNames, body : Bodies] :
        /\ (~u.hasFile => u.raw = <<>>)
        /\ (~u.hasFile \/ secure_filename(u.raw) = <<>> => u.body = Garbage) }

\* The uploads that end as a map when nothing interferes.
Tables ==
    { u \in Uploads : /\ u.hasFile
                      /\ secure_filename(u.raw) # <<>>
                      /\ u.body.kind = "csv"
                      /\ HasRequired(u.body.cols)
                      /\ ~MayRaise(u.body) }

Handle(r) ==
    \/ Read(r)
    \/ \E t \in 0..MaxTick : Build(r, t)
    \/ Save(r)
    \/ Cleanup(r)

\* create_map alone: get_map changes nothing that create_map reads.
Next ==
    \/ \E r \in Requests :
          /\ req[r].pc = "new"
          /\ \E u \in Uploads : Intake(r, u.hasFile, u.raw, u.body)
    \/ \E r \in Requests : Handle(r)

Spec == Init /\ [][Next]_vars

\* Both endpoints, with clients that upload well-formed tables: no other
\* upload ever reaches generated_maps/, which is all that get_map reads.
NextServe ==
    \/ \E r \in Requests :
          /\ req[r].pc = "new"
          /\ \E u \in Tables : Intake(r, u.hasFile, u.raw, u.body)
    \/ \E r \in Requests : Handle(r)
    \/ \E name \in MapNames : GetMap(name)

SpecServe == Init /\ [][NextServe]_vars

\* ------------------------------------------------------------- properties
Done(r) == req[r].pc = "done"

\* The required columns that a table's header lacks.
Lacking(cols) == { c \in required_columns : c \notin cols }

Status(r) == req[r].resp.status

\* The request got as far as file.save: it had a file with a usable name.
Saved(r) == req[r].path # <<>>

\* The uploaded table has the four required columns.
FourColumns(r) == req[r].body.kind = "csv" /\ Lacking(req[r].body.cols) = {}

\* A GET on the request's map_url, issued in the current state, returns 200.
Retrievable(r) ==
    /\ maps[FileName(req[r])] # Absent
    /\ SendFile(FileName(req[r])).status = 200
    /\ SendFile(FileName(req[r])).body.legend_name = "Health Metric"

\* C1 as stated: every finished generate-map request whose uploaded table has
\* the four required columns and at least one row answered 200 with
\* success=true and map_url=/api/maps/<name>, and <name> can be fetched.
C1_EveryTableSucceeds ==
    \A r \in Requests :
        Done(r) /\ Saved(r) /\ FourColumns(r) /\ req[r].body.rows # <<>>
        => /\ req[r].resp = Success(FileName(req[r]))
           /\ Retrievable(r)

\* C1, amended: the same holds when, besides, every row's latitude, longitude
\* and health_metric are numeric and no other request wrote or removed
\* uploads/<name> between this request's file.save and its os.remove; and
\* whatever request answers 200 names an artifact that exists from then on,
\* so that a GET on its map_url returns 200 in every later state.
C1_WellFormedTableSucceeds ==
    \A r \in Requests :
        /\ ( /\ Done(r) /\ Saved(r) /\ FourColumns(r)
             /\ req[r].body.rows # <<>> /\ Numeric(req[r].body.rows)
             /\ ~req[r].hit
             => req[r].resp = Success(FileName(req[r])) )
        /\ ( Done(r) /\ Status(r) = 200
             => /\ req[r].resp = Success(FileName(req[r]))
                /\ Retrievable(r) )

\* A well-formed upload was answered 200 while another request had arrived.
C1_Witness ==
    \E r, q \in Requests :
        /\ r # q /\ req[q].pc # "new"
        /\ Done(r) /\ Saved(r) /\ FourColumns(r) /\ Numeric(req[r].body.rows)
        /\ ~req[r].hit /\ Status(r) = 200 /\ Retrievable(r)

\* C2 as stated: a finished request whose uploaded table lacks a required
\* column answered 400 with a message that lists the missing columns, and
\* wrote no artifact.
C2_NamesMissingColumns ==
    \A r \in Requests :
        Done(r) /\ Saved(r) /\ req[r].body.kind = "csv"
                /\ Lacking(req[r].body.cols) # {}
        => /\ req[r].resp =
                [MissingColumns EXCEPT
                    !.listed = Lacking(req[r].body.cols)]
           /\ ~req[r].wrote

\* C2, amended: a request whose table, as read back from uploads/, lacks a
\* required column answers 400 with a message that lists all four required
\* columns, whichever are missing, and writes no artifact; the table read back
\* is the uploaded one unless another request wrote or removed uploads/<name>
\* in between.
C2_ListsRequiredColumns ==
    \A r \in Requests :
        /\ ( req[r].df # Absent /\ Lacking(req[r].df.cols) # {}
             => /\ Done(r)
                /\ req[r].resp = MissingColumns
                /\ req[r].resp.listed = required_columns
                /\ ~req[r].wrote
                /\ \A n \in MapNames : \A i \in 1..Len(saves[n]) : saves[n][i] # r )
        /\ ( Done(r) /\ Saved(r) /\ ~req[r].hit /\ req[r].body.kind = "csv"
                     /\ Lacking(req[r].body.cols) # {}
             => req[r].df = req[r].body /\ req[r].resp = MissingColumns )

\* A table without health_metric was rejected with the full list.
C2_Witness ==
    \E r \in Requests :
        /\ Done(r) /\ req[r].df = TableNoMetric
        /\ req[r].resp = MissingColumns
        /\ req[r].resp.listed # Lacking(req[r].df.cols)

\* C3: a request without a file field, or with a file whose name is empty, is
\* answered 400 with nothing saved under uploads/ and nothing parsed, and the
\* step that answers it changes neither uploads/ nor generated_maps/.
C3_Rejected(q) ==
    /\ q.resp.status = 400
    /\ q.resp \in { BadRequest("No file provided"), BadRequest("No selected file") }
    /\ q.path = <<>> /\ q.df = Absent /\ ~q.wrote /\ ~q.removed

C3_NoFileRejectedEarly ==
    /\ [](\A r \in Requests :
            Done(r) /\ (~req[r].hasFile \/ ~req[r].named) => C3_Rejected(req[r]))
    /\ [][\A r \in Requests :
            req[r].pc = "new" /\ req'[r].pc # "new"
                /\ (~req'[r].hasFile \/ ~req'[r].named)
            => /\ Done(r)' /\ C3_Rejected(req'[r])
               /\ uploads' = uploads /\ maps' = maps /\ saves' = saves]_vars

\* Both rejections have happened.
C3_Witness ==
    /\ \E r \in Requests : Done(r) /\ ~req[r].hasFile
    /\ \E r \in Requests : Done(r) /\ req[r].hasFile /\ ~req[r].named
                                   /\ req[r].resp = BadRequest("No selected file")

\* The document that the g-th save under `name` wrote.
Saving(name, g) == Html(req[saves[name][g]].df)

Refetch == SendFile(last.name)

Last(seq) == seq[Len(seq)]

\* The artifacts there are.
Artifacts == { n \in MapNames : maps[n] # Absent }

C7_UploadStaysOnError ==
    \A r \in Requests :
        Done(r) /\ Saved(r)
        => /\ (Status(r) = 200 => req[r].removed)
           /\ (Status(r) # 200 => uploads[req[r].path] # Absent)

\* C7, amended: only the success path removes.  A request answered 200 has
\* removed uploads/<name> before responding; a request answered with an error
\* has removed nothing, and the file it saved is still in uploads/ unless
\* another request with the same sanitized file name was answered 200 and
\* removed it.
C7_OnlySuccessRemoves ==
    /\ [](\A r \in Requests :
            Done(r) /\ Saved(r)
            => /\ (Status(r) = 200 <=> req[r].removed)
               /\ (Status(r) # 200
                     => \/ uploads[req[r].path] # Absent
                        \/ \E q \in Requests :
                              /\ q # r /\ req[q].path = req[r].path
                              /\ req[q].removed /\ Status(q) = 200))
    /\ [][\A p \in Paths :
            uploads[p] # Absent /\ uploads'[p] = Absent
            => \E r \in Requests :
                  /\ req[r].pc = "rendered" /\ req[r].path = p
                  /\ Done(r)' /\ Status(r)' = 200 /\ req'[r].removed]_vars
    /\ [][\A r \in Requests :
            req[r].pc = "rendered" /\ Status(r)' = 200
            => uploads[req[r].path] # Absent /\ uploads'[req[r].path] = Absent]_vars

\* One request was answered 200 and its upload is gone; another failed in the
\* renderer and its upload is still there.
C7_Witness ==
    \E r, q \in Requests :
        /\ Done(r) /\ Status(r) = 200 /\ uploads[req[r].path] = Absent
        /\ Done(q) /\ Status(q) = 500 /\ req[q].df = TableBad
        /\ uploads[req[q].path] = TableBad

\* The table the request parsed lacks a required column.
ColumnMissing(q) == q.df # Absent /\ Lacking(q.df.cols) # {}

\* What went wrong in a request that had a named file and all its columns:
\* file.save raised, pd.read_csv raised, the renderer raised, or os.remove
\* raised.
Failed(q) ==
    \/ q.path = <<>>
    \/ q.df = Absent
    \/ ~q.wrote
    \/ ~q.removed

\* C8: a request has a response exactly when its handler has ended, the
\* response never changes, and its status is 200, 400 or 500: 400 exactly
\* when the file field is absent, the file name is empty or the parsed table
\* lacks a required column; otherwise 500 exactly when saving, parsing,
\* rendering or removing failed; and 200 only when a map was rendered and
\* the upload removed.
C8_StatusByOutcome ==
    /\ [](\A r \in Requests :
            /\ (Done(r) <=> req[r].resp # NoResp)
            /\ (Done(r) =>
                  /\ Status(r) \in { 200, 400, 500 }
                  /\ (Status(r) = 400 <=>
                         \/ ~req[r].hasFile
                         \/ ~req[r].named
                         \/ ColumnMissing(req[r]))
                  /\ (Status(r) = 500 <=>
                         /\ req[r].hasFile /\ req[r].named
                         /\ ~ColumnMissing(req[r])
                         /\ Failed(req[r]))
                  /\ (Status(r) = 200 =>
                         /\ req[r].wrote /\ req[r].removed
                         /\ maps[FileName(req[r])] # Absent
                         /\ req[r].resp = Success(FileName(req[r])))))
    /\ [][\A r \in Requests :
            req[r].resp # NoResp => req'[r].resp = req[r].resp]_vars

\* Every request has been answered: one by the outer handler, one by the
\* inner.
C8_Witness ==
    /\ \A r \in Requests : Done(r)
    /\ \E r \in Requests : req[r].resp = ServerError("IsADirectoryError")
    /\ \E r \in Requests : req[r].resp = ProcessingError("ParserError")

\* C9 as stated: a request answered 400 or 500 has written no artifact.
C9_NoArtifactOnError ==
    \A r \in Requests :
        Done(r) /\ Status(r) \in { 400, 500 } => ~req[r].wrote

\* The parsed table is not the uploaded one.
ForeignTable(q) == q.df # Absent /\ q.df # q.body

\* The upload was gone when the request came to read or to remove it.
LostUpload(q) == q.resp = ProcessingError("FileNotFoundError")

\* C10: a request parses a table other than the one it uploaded, or finds its
\* upload gone, only when another request with the same sanitized file name
\* wrote or removed uploads/<name> between its file.save and its os.remove;
\* and both happen.
C10_OnlySharedPathsRace ==
    \A r \in Requests :
        ForeignTable(req[r]) \/ LostUpload(req[r])
        => /\ req[r].hit
           /\ \E q \in Requests :
                 q # r /\ req[q].pc # "new" /\ req[q].path = req[r].path

\* Two requests uploaded well-formed tables under one sanitized name: one
\* rendered its map from the other's table and was answered 200, the other
\* was answered 500 because the first had removed the file.
C10_Witness ==
    \E r, q \in Requests :
        /\ r # q /\ req[r].path = req[q].path
        /\ FourColumns(r) /\ Numeric(req[r].body.rows)
        /\ FourColumns(q) /\ Numeric(req[q].body.rows)
        /\ Status(r) = 200 /\ req[r].df = req[q].body /\ req[r].df # req[r].body
        /\ maps[FileName(req[r])] = Html(req[q].body)
        /\ Done(q) /\ LostUpload(req[q])

=============================================================================
